---- MODULE Spec2Model ----
(***************************************************************************)
(* Model of skrf.media.freespace.Freespace: a plane wave in a homogeneous  *)
(* medium, expressed as a distributed-circuit transmission line.           *)
(*                                                                         *)
(* Representation                                                          *)
(*   - a Python str is a sequence of one-character strings, so that        *)
(*     str.lower() is computed character by character;                     *)
(*   - a complex number is a record [re, im] of integers;                  *)
(*   - a real result is an exact rational <<n, d>>, d > 0, in lowest terms *)
(*     (1./rho is the only source of fractions);                           *)
(*   - an angle is given in degrees and cos is tabulated on the angles the *)
(*     model draws from, as an exact rational;                             *)
(*   - a value that can be assigned to an attribute is a tagged record     *)
(*     [tag, s, v]: tag "str" carries the characters s, the tags "num",    *)
(*     "arr" carry the numbers v, "none" is None;                          *)
(*   - the square roots of the base class are kept symbolic: a result is   *)
(*     coef * sqrt(Z/Y) or coef * sqrt(Z*Y) with Z = <<R, w*L>> and        *)
(*     Y = <<G, w*C>> the real and imaginary parts.                        *)
(* Resistivities are positive (1./rho at rho = 0 is outside the model); an *)
(* array-valued rho has one entry per frequency point.                     *)
(***************************************************************************)
EXTENDS Integers, Sequences, FiniteSets, TLC

VARIABLES frequency, ep_r, mu_r, mode_type, angle, _rho, materials, mutated, last

vars == <<frequency, ep_r, mu_r, mode_type, angle, _rho, materials, mutated, last>>

attrs == <<frequency, ep_r, mu_r, mode_type, angle, _rho>>

(***************************************************************************)
(* Bounds of the model.                                                    *)
(***************************************************************************)
NPoints == 2

MaxRho == 2

(***************************************************************************)
(* scipy.constants, in model units (distinct, so that a mix-up shows).     *)
(***************************************************************************)
mu_0 == 2

epsilon_0 == 3

(***************************************************************************)
(* Strings and str.lower().                                                *)
(***************************************************************************)
UpperChars == <<"A","B","C","D","E","F","G","H","I","J","K","L","M",
                "N","O","P","Q","R","S","T","U","V","W","X","Y","Z">>

LowerChars == <<"a","b","c","d","e","f","g","h","i","j","k","l","m",
                "n","o","p","q","r","s","t","u","v","w","x","y","z">>

Chars == {UpperChars[i] : i \in 1..26} \cup {LowerChars[i] : i \in 1..26}

LowerChar ==
    [c \in Chars |->
        IF \E i \in 1..26 : UpperChars[i] = c
        THEN LowerChars[CHOOSE i \in 1..26 : UpperChars[i] = c]
        ELSE c]

lower(s) == [i \in 1..Len(s) |-> LowerChar[s[i]]]

(***************************************************************************)
(* Tagged values.                                                          *)
(***************************************************************************)
None == [tag |-> "none", s |-> <<>>, v |-> <<>>]

Str(s) == [tag |-> "str", s |-> s, v |-> <<>>]

Num(n) == [tag |-> "num", s |-> <<>>, v |-> <<n>>]

Arr(a) == [tag |-> "arr", s |-> <<>>, v |-> a]

Cplx(c) == [tag |-> "cplx", s |-> <<>>, v |-> <<c.re, c.im>>]

isinstance_str(val) == val.tag = "str"

(***************************************************************************)
(* Exact rationals.                                                        *)
(***************************************************************************)
Abs(n) == IF n < 0 THEN -n ELSE n

RECURSIVE Gcd(_, _)
Gcd(a, b) == IF b = 0 THEN a ELSE Gcd(b, a % b)

Rat(n, d) ==
    LET g == Gcd(Abs(n), Abs(d))
        sgn == IF d < 0 THEN -1 ELSE 1
    IN  <<(sgn * n) \div g, (sgn * d) \div g>>

RatAdd(a, b) == Rat(a[1] * b[2] + b[1] * a[2], a[2] * b[2])

RatMul(a, b) == Rat(a[1] * b[1], a[2] * b[2])

RatDiv(a, b) == Rat(a[1] * b[2], a[2] * b[1])

RatInt(n) == <<n, 1>>

(***************************************************************************)
(* numpy real, imag, cos and the product of a real constant and a complex. *)
(***************************************************************************)
real(c) == c.re

imag(c) == c.im

scale(k, c) == [re |-> k * c.re, im |-> k * c.im]

Angles == {0, 60, 180}

cos(a) == CASE a = 0   -> <<1, 1>>
            [] a = 60  -> <<1, 2>>
            [] a = 180 -> <<-1, 1>>

(***************************************************************************)
(* Input domains.                                                          *)
(***************************************************************************)
Frequencies == {[i \in 1..NPoints |-> i]}

ComplexValues == {[re |-> 1, im |-> 0], [re |-> 2, im |-> 1], [re |-> 1, im |-> -1]}

te == <<"t","e">>

tm == <<"t","m">>

tem == <<"t","e","m">>

ModeNames == {te, tm, tem}

ModeSpellings ==
    {te, <<"T","E">>, tm, <<"T","m">>, tem, <<"t","E","M">>, <<"r","h","c","p">>}

MaterialSpellings ==
    {<<"a","l">>, <<"A","L">>, <<"c","u">>, <<"C","u">>,
     <<"u","n","o","b","t","a","i","n","i","u","m">>}

MaterialKeys == {<<"a","l">>, <<"c","u">>}

Resistivities == 1..MaxRho

RhoArrays == {[i \in 1..NPoints |-> 1 + ((i + k) % MaxRho)] : k \in 0..(MaxRho - 1)}

RhoValues ==
    {None} \cup {Num(n) : n \in Resistivities}
           \cup {Arr(a) : a \in RhoArrays}
           \cup {Str(s) : s \in MaterialSpellings}

(***************************************************************************)
(* The object, as the record the properties read.                          *)
(***************************************************************************)
Self ==
    [frequency |-> frequency, ep_r |-> ep_r, mu_r |-> mu_r,
     mode_type |-> mode_type, angle |-> angle, rho |-> _rho]

Points(o) == 1..Len(o.frequency)

(***************************************************************************)
(* The distributed-circuit primaries, one value per frequency point.       *)
(***************************************************************************)
R(o) == [i \in Points(o) |-> RatInt(o.frequency[i] * imag(scale(mu_0, o.mu_r)))]

L(o) == RatInt(real(scale(mu_0, o.mu_r)))

C(o) == RatInt(real(scale(epsilon_0, o.ep_r)))

(* 1./rho forgotten: the resistivity used as the conductivity *)
conductivity_noinv(o, i) ==
    IF o.rho.tag # "none"
    THEN IF o.rho.tag = "arr" THEN RatInt(o.rho.v[i]) ELSE RatInt(o.rho.v[1])
    ELSE RatInt(0)

conductivity(o, i) ==
    IF o.rho.tag # "none"
    THEN IF o.rho.tag = "arr"
         THEN RatDiv(RatInt(1), RatInt(o.rho.v[i]))
         ELSE RatDiv(RatInt(1), RatInt(o.rho.v[1]))
    ELSE RatInt(0)

(* G computed once, with the constructor's default rho = None *)
G_cached(o) ==
    [i \in Points(o) |-> RatInt(o.frequency[i] * imag(scale(epsilon_0, o.ep_r)))]

G(o) ==
    [i \in Points(o) |->
        RatAdd(conductivity(o, i),
               RatInt(o.frequency[i] * imag(scale(epsilon_0, o.ep_r))))]

(***************************************************************************)
(* DistributedCircuit: Z' = R + jwL, Y' = G + jwC, Z0 = sqrt(Z'/Y'),       *)
(* gamma = sqrt(Z'*Y'), evaluated on the properties of the object.         *)
(***************************************************************************)
DC_Z(o, i) == <<R(o)[i], RatMul(RatInt(o.frequency[i]), L(o))>>

DC_Y(o, i) == <<G(o)[i], RatMul(RatInt(o.frequency[i]), C(o))>>

DC_Z0(o) ==
    [i \in Points(o) |->
        [coef |-> RatInt(1), fn |-> "sqrt(Z/Y)", Z |-> DC_Z(o, i), Y |-> DC_Y(o, i)]]

DC_gamma(o) ==
    [i \in Points(o) |->
        [coef |-> RatInt(1), fn |-> "sqrt(Z*Y)", Z |-> DC_Z(o, i), Y |-> DC_Y(o, i)]]

TimesCos(x, a) == [i \in DOMAIN x |-> [x[i] EXCEPT !.coef = RatMul(@, cos(a))]]

OverCos(x, a) == [i \in DOMAIN x |-> [x[i] EXCEPT !.coef = RatDiv(@, cos(a))]]

(***************************************************************************)
(* Results: ok is FALSE when the operation raises.                         *)
(***************************************************************************)
Ok(v) == [ok |-> TRUE, val |-> v]

Raise == [ok |-> FALSE, val |-> <<>>]

(* the te and tm entries exchanged *)
Z0_dict_swapped(o) ==
    LET z == DC_Z0(o)
    IN  [k \in ModeNames |->
            CASE k = te  -> TimesCos(z, o.angle)
              [] k = tm  -> OverCos(z, o.angle)
              [] k = tem -> z]

Z0_dict(o) ==
    LET z == DC_Z0(o)
    IN  [k \in ModeNames |->
            CASE k = te  -> OverCos(z, o.angle)
              [] k = tm  -> TimesCos(z, o.angle)
              [] k = tem -> z]

(* an unrecognized mode_type falls back to the tem entry *)
Z0_default(o) ==
    IF o.mode_type \in DOMAIN Z0_dict(o)
    THEN Ok(Z0_dict(o)[o.mode_type])
    ELSE Ok(Z0_dict(o)[tem])

Z0(o) ==
    IF o.mode_type \in DOMAIN Z0_dict(o)
    THEN Ok(Z0_dict(o)[o.mode_type])
    ELSE Raise

(* the angle applied only outside tem mode *)
gamma_mode_aware(o) ==
    IF o.mode_type = tem THEN Ok(DC_gamma(o)) ELSE Ok(TimesCos(DC_gamma(o), o.angle))

gamma(o) == Ok(TimesCos(DC_gamma(o), o.angle))

rho(o) == Ok(o.rho)

(***************************************************************************)
(* The rho setter: the stored value, or a raise when the lowercased name   *)
(* is not a key of the material table.                                     *)
(***************************************************************************)
(* an unknown name stored as None instead of raising *)
rho_setter_get(val, table) ==
    IF isinstance_str(val)
    THEN IF lower(val.s) \in DOMAIN table
         THEN Ok(Num(table[lower(val.s)]))
         ELSE Ok(None)
    ELSE Ok(val)

(* the name looked up as given, without lower() *)
rho_setter_nolower(val, table) ==
    IF isinstance_str(val)
    THEN IF val.s \in DOMAIN table
         THEN Ok(Num(table[val.s]))
         ELSE Raise
    ELSE Ok(val)

rho_setter(val, table) ==
    IF isinstance_str(val)
    THEN IF lower(val.s) \in DOMAIN table
         THEN Ok(Num(table[lower(val.s)]))
         ELSE Raise
    ELSE Ok(val)

TableResistivities == {1, 2}

DefaultMaterials == [k \in MaterialKeys |-> IF k = <<"a","l">> THEN 2 ELSE 1]

(***************************************************************************)
(* last: the operation that produced the current state, its argument and   *)
(* its outcome; repeat is TRUE when a read follows the same read.          *)
(* mutated: an attribute has been assigned since the construction.         *)
(***************************************************************************)
Step(op, arg, res, rep) ==
    [op |-> op, arg |-> arg, ok |-> res.ok, val |-> res.val, repeat |-> rep]

ReadOps == {"R", "L", "C", "G", "Z0", "gamma", "rho"}

(***************************************************************************)
(* Freespace.__init__: the states after a construction that returned.      *)
(***************************************************************************)
Init ==
    /\ frequency \in Frequencies
    /\ ep_r \in ComplexValues
    /\ mu_r \in ComplexValues
    /\ angle \in Angles
    /\ materials = DefaultMaterials
    /\ mutated = FALSE
    /\ \E m \in ModeSpellings :
          /\ mode_type = lower(m)
          /\ last = Step("__init__", Str(m), Ok(<<>>), FALSE)
    /\ \E val \in RhoValues :
          /\ rho_setter(val, materials).ok
          /\ _rho = rho_setter(val, materials).val

(***************************************************************************)
(* Assignments to the plain attributes.                                    *)
(***************************************************************************)
Set_ep_r(val) ==
    /\ ep_r' = val
    /\ last' = Step("set_ep_r", Cplx(val), Ok(<<>>), FALSE)
    /\ mutated' = TRUE
    /\ UNCHANGED <<frequency, mu_r, mode_type, angle, _rho, materials>>

Set_mu_r(val) ==
    /\ mu_r' = val
    /\ last' = Step("set_mu_r", Cplx(val), Ok(<<>>), FALSE)
    /\ mutated' = TRUE
    /\ UNCHANGED <<frequency, ep_r, mode_type, angle, _rho, materials>>

Set_mode_type(val) ==
    /\ mode_type' = val
    /\ last' = Step("set_mode_type", Str(val), Ok(<<>>), FALSE)
    /\ mutated' = TRUE
    /\ UNCHANGED <<frequency, ep_r, mu_r, angle, _rho, materials>>

Set_angle(val) ==
    /\ angle' = val
    /\ last' = Step("set_angle", Num(val), Ok(<<>>), FALSE)
    /\ mutated' = TRUE
    /\ UNCHANGED <<frequency, ep_r, mu_r, mode_type, _rho, materials>>

(***************************************************************************)
(* Assignment to the rho property.                                         *)
(***************************************************************************)
Set_rho(val) ==
    /\ _rho' = IF rho_setter(val, materials).ok THEN rho_setter(val, materials).val ELSE _rho
    /\ last' = Step("set_rho", val, [ok |-> rho_setter(val, materials).ok, val |-> <<>>], FALSE)
    /\ mutated' = (mutated \/ rho_setter(val, materials).ok)
    /\ UNCHANGED <<frequency, ep_r, mu_r, mode_type, angle, materials>>

(***************************************************************************)
(* Reads of the properties.                                                *)
(***************************************************************************)
ReadR ==
    /\ last' = Step("R", None, Ok(R(Self)), last.op = "R")
    /\ UNCHANGED <<frequency, ep_r, mu_r, mode_type, angle, _rho, materials, mutated>>

ReadL ==
    /\ last' = Step("L", None, Ok(L(Self)), last.op = "L")
    /\ UNCHANGED <<frequency, ep_r, mu_r, mode_type, angle, _rho, materials, mutated>>

ReadC ==
    /\ last' = Step("C", None, Ok(C(Self)), last.op = "C")
    /\ UNCHANGED <<frequency, ep_r, mu_r, mode_type, angle, _rho, materials, mutated>>

ReadG ==
    /\ last' = Step("G", None, Ok(G(Self)), last.op = "G")
    /\ UNCHANGED <<frequency, ep_r, mu_r, mode_type, angle, _rho, materials, mutated>>

(* a read of Z0 that "repairs" an unrecognized mode_type when it fails *)
ReadZ0_fixup ==
    /\ last' = Step("Z0", None, Z0(Self), last.op = "Z0")
    /\ mode_type' = IF Z0(Self).ok THEN mode_type ELSE tem
    /\ UNCHANGED <<frequency, ep_r, mu_r, angle, _rho, materials, mutated>>

ReadZ0 ==
    /\ last' = Step("Z0", None, Z0(Self), last.op = "Z0")
    /\ UNCHANGED <<frequency, ep_r, mu_r, mode_type, angle, _rho, materials, mutated>>

ReadGamma ==
    /\ last' = Step("gamma", None, gamma(Self), last.op = "gamma")
    /\ UNCHANGED <<frequency, ep_r, mu_r, mode_type, angle, _rho, materials, mutated>>

ReadRho ==
    /\ last' = Step("rho", None, rho(Self), last.op = "rho")
    /\ UNCHANGED <<frequency, ep_r, mu_r, mode_type, angle, _rho, materials, mutated>>

(***************************************************************************)
(* A change of an entry of the material table by the rest of the program.  *)
(***************************************************************************)
MaterialsUpdate(k, n) ==
    /\ materials[k] # n
    /\ materials' = [materials EXCEPT ![k] = n]
    /\ last' = Step("materials", Str(k), Ok(<<>>), FALSE)
    /\ UNCHANGED <<frequency, ep_r, mu_r, mode_type, angle, _rho, mutated>>

Next ==
    \/ \E val \in ComplexValues : Set_ep_r(val)
    \/ \E val \in ComplexValues : Set_mu_r(val)
    \/ \E val \in ModeSpellings : Set_mode_type(val)
    \/ \E val \in Angles : Set_angle(val)
    \/ \E val \in RhoValues : Set_rho(val)
    \/ ReadR
    \/ ReadL
    \/ ReadC
    \/ ReadG
    \/ ReadZ0
    \/ ReadGamma
    \/ ReadRho
    \/ \E k \in MaterialKeys, n \in TableResistivities : MaterialsUpdate(k, n)

Spec == Init /\ [][Next]_vars

(***************************************************************************)
(* Reference values of the claims, written on the variables.               *)
(***************************************************************************)
rhcp == <<"r","h","c","p">>

w(i) == frequency[i]

Strip(t) == [fn |-> t.fn, Z |-> t.Z, Y |-> t.Y]

IsRead(op) == last.op = op /\ last.ok

(* C1: an assignment of a spelling of te, tm or tem, by the constructor or *)
(* to the attribute, stores the lowercase name, and Z0 then reads as after *)
(* the assignment of the lowercase spelling.                               *)
C1_LowercaseOnEveryAssignment ==
    (last.op \in {"__init__", "set_mode_type"} /\ lower(last.arg.s) \in ModeNames)
        => /\ mode_type = lower(last.arg.s)
           /\ Z0(Self) = Z0([Self EXCEPT !.mode_type = lower(last.arg.s)])

(* C2: a string outside {tem, te, tm} is accepted by the constructor and   *)
(* by the assignment; a read of Z0 fails exactly when the stored mode_type *)
(* is outside {tem, te, tm}, so it succeeds again after a reassignment of  *)
(* a recognized value.                                                     *)
C2_LazyModeValidation ==
    /\ (last.op = "__init__" /\ lower(last.arg.s) \notin ModeNames)
          => (last.ok /\ mode_type = lower(last.arg.s))
    /\ (last.op = "set_mode_type" /\ last.arg.s \notin ModeNames)
          => (last.ok /\ mode_type = last.arg.s)
    /\ last.op = "Z0" => (last.ok <=> mode_type \in ModeNames)

C2_Witness == last.op = "Z0" /\ ~last.ok /\ mode_type = rhcp /\ last.repeat

(* C3: the assignment to rho of a string whose lowercase form is not a key *)
(* of the material table raises at the assignment and changes no           *)
(* attribute; reads of rho and of G never raise.                           *)
C3_UnknownMaterialState ==
    /\ (last.op = "set_rho" /\ last.arg.tag = "str"
            /\ lower(last.arg.s) \notin DOMAIN materials) => ~last.ok
    /\ last.op \in {"rho", "G"} => last.ok

C3_UnknownMaterialFrame ==
    (last'.op = "set_rho" /\ ~last'.ok)
        => UNCHANGED <<frequency, ep_r, mu_r, mode_type, angle, _rho, materials>>

C3_UnknownMaterial == []C3_UnknownMaterialState /\ [][C3_UnknownMaterialFrame]_vars

C3_Witness ==
    /\ last.op = "set_rho"
    /\ last.arg.s = <<"u","n","o","b","t","a","i","n","i","u","m">>
    /\ ~last.ok
    /\ _rho = Num(2)
    /\ mutated

(* C4: the assignment of a material name in any letter case stores the     *)
(* number the table holds for the lowercase name, a value that is not a    *)
(* string is stored as given, the stored value is never a string, a read   *)
(* of rho returns the stored value, and a later change of the table        *)
(* changes neither rho nor G.                                              *)
C4_RoundTripState ==
    /\ (last.op = "set_rho" /\ last.arg.tag = "str"
            /\ lower(last.arg.s) \in DOMAIN materials)
          => (last.ok /\ _rho = Num(materials[lower(last.arg.s)]))
    /\ (last.op = "set_rho" /\ last.arg.tag # "str") => (last.ok /\ _rho = last.arg)
    /\ _rho.tag \in {"none", "num", "arr"}
    /\ last.op = "rho" => (last.ok /\ last.val = _rho)

SelfNext ==
    [frequency |-> frequency', ep_r |-> ep_r', mu_r |-> mu_r',
     mode_type |-> mode_type', angle |-> angle', rho |-> _rho']

C4_TableChangeFrame ==
    last'.op = "materials"
        => (_rho' = _rho /\ G(SelfNext) = G(Self) /\ rho(SelfNext) = rho(Self))

C4_RoundTrip == []C4_RoundTripState /\ [][C4_TableChangeFrame]_vars

C4_Witness ==
    /\ last.op = "set_rho"
    /\ last.arg = Str(<<"A","L">>)
    /\ last.ok
    /\ materials[<<"a","l">>] = 1
    /\ _rho = Num(1)

(* C5: after any sequence of assignments and reads, a read of R, L, C, G,  *)
(* Z0 or gamma returns its formula on the attribute values of the moment   *)
(* of the read.                                                            *)
Expected_R == [i \in 1..Len(frequency) |-> <<w(i) * mu_0 * mu_r.im, 1>>]

Expected_L == <<mu_0 * mu_r.re, 1>>

Expected_C == <<epsilon_0 * ep_r.re, 1>>

Expected_G ==
    [i \in 1..Len(frequency) |->
        LET loss == w(i) * epsilon_0 * ep_r.im
        IN  CASE _rho.tag = "none" -> <<loss, 1>>
              [] _rho.tag = "num"  -> Rat(1 + loss * _rho.v[1], _rho.v[1])
              [] _rho.tag = "arr"  -> Rat(1 + loss * _rho.v[i], _rho.v[i])]

Expected_ZY(i) ==
    [Z |-> <<Expected_R[i], <<w(i) * Expected_L[1], 1>>>>,
     Y |-> <<Expected_G[i], <<w(i) * Expected_C[1], 1>>>>]

Expected_Z0 ==
    [i \in 1..Len(frequency) |->
        [coef |-> CASE mode_type = te  -> RatDiv(<<1, 1>>, cos(angle))
                    [] mode_type = tm  -> cos(angle)
                    [] mode_type = tem -> <<1, 1>>,
         fn |-> "sqrt(Z/Y)", Z |-> Expected_ZY(i).Z, Y |-> Expected_ZY(i).Y]]

Expected_gamma ==
    [i \in 1..Len(frequency) |->
        [coef |-> cos(angle), fn |-> "sqrt(Z*Y)",
         Z |-> Expected_ZY(i).Z, Y |-> Expected_ZY(i).Y]]

C5_NoCaching ==
    /\ IsRead("R") => last.val = Expected_R
    /\ IsRead("L") => last.val = Expected_L
    /\ IsRead("C") => last.val = Expected_C
    /\ IsRead("G") => last.val = Expected_G
    /\ IsRead("Z0") => last.val = Expected_Z0
    /\ IsRead("gamma") => last.val = Expected_gamma
    /\ last.op \in {"R", "L", "C", "G", "gamma"} => last.ok

C5_Witness ==
    /\ IsRead("Z0")
    /\ mutated
    /\ mode_type = tm
    /\ angle = 60
    /\ ep_r.im = 1
    /\ _rho = Arr([i \in 1..Len(frequency) |-> IF i = 1 THEN 2 ELSE 1])

(* C6: a read of Z0 returns the base Z0 divided by cos(angle) in te mode,  *)
(* multiplied by cos(angle) in tm mode and unchanged in tem mode; for the  *)
(* same angle the product of the te and tm values is the base Z0 squared.  *)
Z0_in(m) == Z0([Self EXCEPT !.mode_type = m]).val

C6_ModeScaling ==
    /\ (IsRead("Z0") /\ mode_type = te) => last.val = OverCos(DC_Z0(Self), angle)
    /\ (IsRead("Z0") /\ mode_type = tm) => last.val = TimesCos(DC_Z0(Self), angle)
    /\ (IsRead("Z0") /\ mode_type = tem) => last.val = DC_Z0(Self)
    /\ \A i \in 1..Len(frequency) :
          /\ RatMul(Z0_in(te)[i].coef, Z0_in(tm)[i].coef) = <<1, 1>>
          /\ Strip(Z0_in(te)[i]) = Strip(DC_Z0(Self)[i])
          /\ Strip(Z0_in(tm)[i]) = Strip(DC_Z0(Self)[i])

C6_Witness ==
    /\ IsRead("Z0")
    /\ mode_type = te
    /\ angle = 60
    /\ \A i \in 1..Len(frequency) : last.val[i].coef = <<2, 1>>

C8_ReadStep ==
    last'.op \in ReadOps =>
        /\ UNCHANGED <<frequency, ep_r, mu_r, mode_type, angle, _rho, materials>>
        /\ last'.repeat => (last'.ok = last.ok /\ last'.val = last.val)

C8_ReadsArePure == [][C8_ReadStep]_vars

C8_Witness == last.op = "Z0" /\ last.repeat /\ ~last.ok /\ mode_type = <<"T","E">>

(* C9: R is given by imag(ep_0*ep_r) and G by imag(mu_0*mu_r), each taken  *)
(* with the factor w of the reads, C by real(ep_0*ep_r) and L by           *)
(* real(mu_0*mu_r).                                                        *)
C9_DocstringTable ==
    /\ IsRead("R") =>
          \A i \in 1..Len(frequency) : last.val[i] = RatInt(w(i) * imag(scale(epsilon_0, ep_r)))
    /\ (IsRead("G") /\ _rho = None) =>
          \A i \in 1..Len(frequency) : last.val[i] = RatInt(w(i) * imag(scale(mu_0, mu_r)))
    /\ IsRead("C") => last.val = RatInt(real(scale(epsilon_0, ep_r)))
    /\ IsRead("L") => last.val = RatInt(real(scale(mu_0, mu_r)))

(* C10: a read of gamma succeeds for every value of mode_type and returns  *)
(* the base gamma times cos(angle), the same for every mode_type, hence    *)
(* the base gamma at angle 0.                                              *)
C10_GammaIgnoresMode ==
    /\ last.op = "gamma" => (last.ok /\ last.val = TimesCos(DC_gamma(Self), angle))
    /\ (last.op = "gamma" /\ angle = 0) => last.val = DC_gamma(Self)
    /\ \A m \in ModeSpellings : gamma([Self EXCEPT !.mode_type = m]) = gamma(Self)

C10_Witness ==
    /\ IsRead("gamma")
    /\ mode_type = rhcp
    /\ angle = 60
    /\ \A i \in 1..Len(frequency) : last.val[i].coef = <<1, 2>>

====
